---- MODULE Spec2Model ----
(***************************************************************************)
(* Model of src/main.py: the MRS spreadsheet analyzer.                     *)
(*                                                                         *)
(*   read_csv   parses one two-row spreadsheet into a RatData record       *)
(*   write_csv  merges two lists of records into MRS_Data.csv and renders  *)
(*              one box plot per metabolite                                *)
(*   main       walks the root directory, reads every condition folder of  *)
(*              every subject folder and calls write_csv once              *)
(*                                                                         *)
(* Conventions.  A Python str that the program takes apart (a column       *)
(* header, a folder name) is a sequence of tokens, " " being the blank     *)
(* token; str.strip, str.split, "in" and "+" are computed on that          *)
(* sequence.  A data cell is a short text, and float(), int() and str()    *)
(* are computed on the texts that occur.  A float is held in tenths.       *)
(* Python indices are kept 0-based through At.  A dict is the sequence of  *)
(* its items in insertion order.  A spreadsheet always has its two rows.   *)
(* boxplot is taken to save its image without raising.                     *)
(***************************************************************************)
EXTENDS Integers, Sequences, FiniteSets, TLC

VARIABLES
    r_file, r_iso, r_res, rpc,          \* read_csv: arguments, result, position
    w_high, w_low, wout, wpc,           \* write_csv: arguments, locals at exit, position
    table, charts, printed,             \* MRS_Data.csv, the *_no_filter.png files, stdout
    root, todo, pc, run,                \* main: the root folder, the listing left, position
    rats_high, rats_low,                \* main: the two accumulated lists
    err, visited, calls, earlier        \* main: exception raised, files read, write_csv calls,
                                        \*       how the earlier runs ended and what they left

rvars == <<r_file, r_iso, r_res, rpc>>
wvars == <<w_high, w_low, wout, wpc>>
ovars == <<table, charts, printed>>
mvars == <<root, todo, pc, run, rats_high, rats_low, err, visited, calls, earlier>>
vars  == <<rvars, wvars, ovars, mvars>>

\* ------------------------------------------------------------------ bounds
\* longest header row drawn for read_csv
MaxCols == 8
\* longest record list drawn for write_csv
MaxRats == 2
\* most subject folders under the root
MaxSubjects == 2

\* ------------------------------------------------------------- Python bits
At(s, i) == s[i + 1]

Range(s) == {s[i] : i \in 1..Len(s)}

RECURSIVE LStrip(_)
LStrip(s) == IF s # <<>> /\ Head(s) = " " THEN LStrip(Tail(s)) ELSE s

RECURSIVE RStrip(_)
RStrip(s) == IF s # <<>> /\ s[Len(s)] = " " THEN RStrip(SubSeq(s, 1, Len(s) - 1)) ELSE s

Strip(s) == RStrip(LStrip(s))

Contains(s, tok) == \E i \in 1..Len(s) : s[i] = tok

RECURSIVE Split(_, _)
Split(s, sep) ==
    IF ~Contains(s, sep) THEN <<s>>
    ELSE LET i == CHOOSE j \in 1..Len(s) : s[j] = sep /\ \A k \in 1..(j - 1) : s[k] # sep
         IN  <<SubSeq(s, 1, i - 1)>> \o Split(SubSeq(s, i + 1, Len(s)), sep)

IsFloatText(c) == c \in {"8.2", "7.9", "9.4", "9.0", "1.0", "1.1", "5", "4"}
IsIntText(c)   == c \in {"5", "4"}

FloatOf(c) ==
    CASE c = "8.2" -> 82 [] c = "7.9" -> 79 [] c = "9.4" -> 94 [] c = "9.0" -> 90
      [] c = "1.0" -> 10 [] c = "1.1" -> 11 [] c = "5" -> 50 [] c = "4" -> 40

IntOf(c) == CASE c = "5" -> 5 [] c = "4" -> 4

PyFloat(c) == [t |-> "float", v |-> FloatOf(c)]
PyInt(c)   == [t |-> "int", v |-> IntOf(c)]

Digit(d) == CASE d = 0 -> "0" [] d = 1 -> "1" [] d = 2 -> "2" [] d = 3 -> "3" [] d = 4 -> "4"
              [] d = 5 -> "5" [] d = 6 -> "6" [] d = 7 -> "7" [] d = 8 -> "8" [] d = 9 -> "9"

\* str() of a value as csv.writer puts it in a cell: repr of a float keeps ".0"
Str(x) ==
    IF x.t = "float" THEN <<Digit(x.v \div 10), ".", Digit(x.v % 10)>>
    ELSE IF x.t = "int" THEN <<Digit(x.v)>>
    ELSE x.v

\* ------------------------------------------------------------------- dicts
DictKeys(d) == [i \in 1..Len(d) |-> d[i].k]

DictHas(d, key) == \E i \in 1..Len(d) : d[i].k = key

DictGet(d, key) == (d[CHOOSE i \in 1..Len(d) : d[i].k = key]).v

DictSet(d, key, val) ==
    IF DictHas(d, key)
    THEN [i \in 1..Len(d) |-> IF d[i].k = key THEN [k |-> key, v |-> val] ELSE d[i]]
    ELSE Append(d, [k |-> key, v |-> val])

\* ----------------------------------------------------------------- RatData
NoRecord == [id |-> <<>>, gender |-> <<>>, genetics |-> <<>>, iso |-> "None", metabolites |-> <<>>]

RatData(rat_id, gender, genetics, metabolites) ==
    [id |-> rat_id, gender |-> gender, genetics |-> genetics, iso |-> "None",
     metabolites |-> metabolites]

RatDataHighIso(rat_id, gender, genetics, metabolites) ==
    [RatData(rat_id, gender, genetics, metabolites) EXCEPT !.iso = "iso_high"]

RatDataLowIso(rat_id, gender, genetics, metabolites) ==
    [RatData(rat_id, gender, genetics, metabolites) EXCEPT !.iso = "iso_low"]

\* ---------------------------------------------------------------- read_csv
\* header + " " + rat_data.iso
FieldName(h, iso) == Strip(h) \o <<" ">> \o <<iso>>

\* what evaluating (data_rows[0][c].strip() + ..., conv(data_rows[1][c])) raises
CellError(hdr, dat, c, conv) ==
    IF c >= Len(hdr) THEN "IndexError"
    ELSE IF c >= Len(dat) THEN "IndexError"
    ELSE IF conv = "float" /\ ~IsFloatText(At(dat, c)) THEN "ValueError"
    ELSE IF conv = "int" /\ ~IsIntText(At(dat, c)) THEN "ValueError"
    ELSE "none"

\* the three tuples of one group are built left to right
GroupError(hdr, dat, i) ==
    IF CellError(hdr, dat, i, "float") # "none" THEN CellError(hdr, dat, i, "float")
    ELSE IF CellError(hdr, dat, i + 1, "int") # "none" THEN CellError(hdr, dat, i + 1, "int")
    ELSE CellError(hdr, dat, i + 2, "float")

GroupValue(hdr, dat, iso, i) ==
    << [n |-> FieldName(At(hdr, i), iso),     x |-> PyFloat(At(dat, i))],
       [n |-> FieldName(At(hdr, i + 1), iso), x |-> PyInt(At(dat, i + 1))],
       [n |-> FieldName(At(hdr, i + 2), iso), x |-> PyFloat(At(dat, i + 2))] >>

\* a reader that drops a group it cannot build instead of raising
RECURSIVE ReadGroups_skip(_, _, _, _, _)
ReadGroups_skip(hdr, dat, iso, i, mets) ==
    IF i >= Len(hdr) THEN [err |-> "none", mets |-> mets]
    ELSE IF GroupError(hdr, dat, i) # "none" THEN ReadGroups_skip(hdr, dat, iso, i + 3, mets)
    ELSE ReadGroups_skip(hdr, dat, iso, i + 3,
                         DictSet(mets, Strip(At(hdr, i)), GroupValue(hdr, dat, iso, i)))

\* for i in range(2, len(data_rows[0]), 3)
RECURSIVE ReadGroups(_, _, _, _, _)
ReadGroups(hdr, dat, iso, i, mets) ==
    IF i >= Len(hdr) THEN [err |-> "none", mets |-> mets]
    ELSE IF GroupError(hdr, dat, i) # "none" THEN [err |-> GroupError(hdr, dat, i), mets |-> <<>>]
    ELSE ReadGroups(hdr, dat, iso, i + 3,
                    DictSet(mets, Strip(At(hdr, i)), GroupValue(hdr, dat, iso, i)))

NoFile == [header |-> <<>>, data |-> <<>>, missing |-> TRUE]

ReadCsv(file, rat_id, gender, genetics, iso) ==
    LET rat_data == IF iso THEN RatDataHighIso(rat_id, gender, genetics, <<>>)
                           ELSE RatDataLowIso(rat_id, gender, genetics, <<>>)
        g == ReadGroups(file.header, file.data, rat_data.iso, 2, <<>>)
    IN  IF file.missing THEN [err |-> "FileNotFoundError", rec |-> NoRecord]
        ELSE IF g.err # "none" THEN [err |-> g.err, rec |-> NoRecord]
        ELSE [err |-> "none", rec |-> [rat_data EXCEPT !.metabolites = g.mets]]

\* --------------------------------------------------------------- write_csv
NoTable == [header |-> <<>>, rows |-> <<>>, exists |-> FALSE]

PyStr(s) == [t |-> "str", v |-> s]

NoData_and(rat_high, rat_low) == Len(rat_high) < 1 /\ Len(rat_low) < 1

\* len(rat_high) < 1 or len(rat_low) < 1
NoData(rat_high, rat_low) == Len(rat_high) < 1 \/ Len(rat_low) < 1

RatHighField(rat_high) == DictKeys(rat_high[1].metabolites)

\* what building fields raises: rat_high[0], then rat_low[0].metabolites[key]
HeaderError(rat_high, rat_low) ==
    IF Len(rat_high) < 1 THEN "IndexError"
    ELSE IF RatHighField(rat_high) = <<>> THEN "none"
    ELSE IF Len(rat_low) < 1 THEN "IndexError"
    ELSE IF \E i \in 1..Len(RatHighField(rat_high)) :
                ~DictHas(rat_low[1].metabolites, RatHighField(rat_high)[i])
    THEN "KeyError"
    ELSE "none"

MetFields_lowFirst(rat_high, rat_low, key) ==
    << DictGet(rat_low[1].metabolites, key)[1].n, DictGet(rat_high[1].metabolites, key)[1].n,
       DictGet(rat_low[1].metabolites, key)[2].n, DictGet(rat_high[1].metabolites, key)[2].n,
       DictGet(rat_low[1].metabolites, key)[3].n, DictGet(rat_high[1].metabolites, key)[3].n >>

\* the six names one metabolite adds to fields
MetFields(rat_high, rat_low, key) ==
    << DictGet(rat_high[1].metabolites, key)[1].n, DictGet(rat_low[1].metabolites, key)[1].n,
       DictGet(rat_high[1].metabolites, key)[2].n, DictGet(rat_low[1].metabolites, key)[2].n,
       DictGet(rat_high[1].metabolites, key)[3].n, DictGet(rat_low[1].metabolites, key)[3].n >>

RECURSIVE FieldsFrom(_, _, _)
FieldsFrom(rat_high, rat_low, i) ==
    IF i > Len(RatHighField(rat_high)) THEN <<>>
    ELSE MetFields(rat_high, rat_low, RatHighField(rat_high)[i])
         \o FieldsFrom(rat_high, rat_low, i + 1)

Fields(rat_high, rat_low) ==
    << <<"Id">>, <<"Genotype">>, <<"Gender">> >> \o FieldsFrom(rat_high, rat_low, 1)

\* what iteration k (1-based here) of the subject loop raises
RowError(rat_high, rat_low, k) ==
    IF k > Len(rat_low) THEN "IndexError"
    ELSE IF \E i \in 1..Len(RatHighField(rat_high)) :
                \/ ~DictHas(rat_high[k].metabolites, RatHighField(rat_high)[i])
                \/ ~DictHas(rat_low[k].metabolites, RatHighField(rat_high)[i])
    THEN "KeyError"
    ELSE "none"

\* for m in range(3): rat_data[...[item][m][0]] = ...[item][m][1]
RowSetMet(rat_data, high_k, low_k, item) ==
    LET trip == DictGet(high_k.metabolites, item)
    IN  DictSet(DictSet(DictSet(rat_data, trip[1].n, trip[1].x), trip[2].n, trip[2].x),
                trip[3].n, trip[3].x)

RECURSIVE RowFrom(_, _, _, _, _)
RowFrom(rat_data, high_k, low_k, keys, i) ==
    IF i > Len(keys) THEN rat_data
    ELSE RowFrom(RowSetMet(rat_data, high_k, low_k, keys[i]), high_k, low_k, keys, i + 1)

\* the dict one subject contributes to rats_data
Row(rat_high, rat_low, k) ==
    RowFrom(<< [k |-> <<"Id">>,       v |-> PyStr(rat_high[k].id)],
               [k |-> <<"Gender">>,   v |-> PyStr(rat_high[k].gender)],
               [k |-> <<"Genotype">>, v |-> PyStr(rat_high[k].genetics)] >>,
            rat_high[k], rat_low[k], RatHighField(rat_high), 1)

\* first iteration of the subject loop that raises, Len + 1 when none does
FirstBadRow(rat_high, rat_low) ==
    IF \E k \in 1..Len(rat_high) : RowError(rat_high, rat_low, k) # "none"
    THEN CHOOSE k \in 1..Len(rat_high) :
             /\ RowError(rat_high, rat_low, k) # "none"
             /\ \A j \in 1..(k - 1) : RowError(rat_high, rat_low, j) = "none"
    ELSE Len(rat_high) + 1

RatsData(rat_high, rat_low) == [k \in 1..Len(rat_high) |-> Row(rat_high, rat_low, k)]

\* plot_data: two entries per subject in every column
PlotData(rat_high, rat_low) ==
    [Genotype |-> [n \in 1..(2 * Len(rat_high)) |-> rat_high[(n + 1) \div 2].genetics],
     iso      |-> [n \in 1..(2 * Len(rat_high)) |->
                      IF n % 2 = 1 THEN rat_high[(n + 1) \div 2].iso
                                   ELSE rat_low[(n + 1) \div 2].iso],
     mets     |-> [i \in 1..Len(RatHighField(rat_high)) |->
                     [k |-> RatHighField(rat_high)[i],
                      v |-> [n \in 1..(2 * Len(rat_high)) |->
                               IF n % 2 = 1
                               THEN DictGet(rat_high[(n + 1) \div 2].metabolites,
                                            RatHighField(rat_high)[i])[1].x
                               ELSE DictGet(rat_low[(n + 1) \div 2].metabolites,
                                            RatHighField(rat_high)[i])[1].x]]]]

\* boxplot saves '{path}/{metabolite}_no_filter.png'
Boxplot(metabolite) == metabolite \o <<"_no_filter.png">>

Charts(rat_high) == {Boxplot(RatHighField(rat_high)[i]) : i \in 1..Len(RatHighField(rat_high))}

\* csv.DictWriter: a dict with a key outside fieldnames raises ValueError,
\* a fieldname the dict lacks is written as the empty cell
RowFits(fields, rat_data) == \A i \in 1..Len(rat_data) : rat_data[i].k \in Range(fields)

DictToList(fields, rat_data) ==
    [i \in 1..Len(fields) |->
        IF DictHas(rat_data, fields[i]) THEN Str(DictGet(rat_data, fields[i])) ELSE <<>>]

\* rows that writerows puts in the file before it returns or raises
RowsWritten(fields, rats_data) ==
    IF \A k \in 1..Len(rats_data) : RowFits(fields, rats_data[k]) THEN Len(rats_data)
    ELSE (CHOOSE k \in 1..Len(rats_data) :
              /\ ~RowFits(fields, rats_data[k])
              /\ \A j \in 1..(k - 1) : RowFits(fields, rats_data[j])) - 1

Serialize(fields, rats_data) ==
    [header |-> fields,
     rows   |-> [k \in 1..RowsWritten(fields, rats_data) |-> DictToList(fields, rats_data[k])],
     exists |-> TRUE]

Quiet(e) ==
    [err |-> e, said |-> <<>>, fields |-> <<>>, rats_data |-> <<>>, plot_data |-> <<>>,
     charts |-> {}, table |-> NoTable]

WriteCsv(rat_high, rat_low) ==
    IF NoData(rat_high, rat_low)
    THEN [Quiet("none") EXCEPT !.said = <<"No rat data available">>]
    ELSE IF HeaderError(rat_high, rat_low) # "none"
    THEN Quiet(HeaderError(rat_high, rat_low))
    ELSE IF FirstBadRow(rat_high, rat_low) <= Len(rat_high)
    THEN Quiet(RowError(rat_high, rat_low, FirstBadRow(rat_high, rat_low)))
    ELSE LET fields    == Fields(rat_high, rat_low)
             rats_data == RatsData(rat_high, rat_low)
         IN  [err       |-> IF RowsWritten(fields, rats_data) < Len(rats_data)
                            THEN "ValueError" ELSE "none",
              said      |-> <<>>,
              fields    |-> fields,
              rats_data |-> rats_data,
              plot_data |-> PlotData(rat_high, rat_low),
              charts    |-> Charts(rat_high),
              table     |-> Serialize(fields, rats_data)]

\* ------------------------------------------------------------- input files
File(header, data) == [header |-> header, data |-> data, missing |-> FALSE]

MetNames == {<<"Cr">>, <<" ", "Cr", " ">>, <<"NAA">>}

\* a header row of n cells: two leading blanks, then (name, %SD, /Cr+PCr) groups
HeaderRow(n, names, sd) ==
    [c \in 1..n |->
        IF c <= 2 THEN <<>>
        ELSE IF (c - 3) % 3 = 0 THEN names[((c - 3) \div 3) + 1]
        ELSE IF (c - 3) % 3 = 1 THEN sd
        ELSE <<"/Cr+PCr">>]

\* a data row of m cells, malformed at the (0-based) columns of bad
DataRow(m, conc, bad) ==
    [c \in 1..m |->
        IF c <= 2 THEN ""
        ELSE IF (c - 3) % 3 = 1 THEN (IF (c - 1) \in bad THEN "8.2" ELSE "5")
        ELSE IF (c - 1) \in bad THEN "x"
        ELSE IF (c - 3) % 3 = 0 THEN conc ELSE "1.1"]

Groups(n) == n \div 3

ReadFiles ==
    UNION { UNION { { File(HeaderRow(n, names, <<"%SD">>), DataRow(m, "8.2", bad)) :
                        bad \in {{}} \cup {{c} : c \in 2..(m - 1)} } :
                    names \in [1..Groups(n) -> MetNames], m \in {n - 1, n} } :
            n \in 2..MaxCols }

CrNaa  == <<<<"Cr">>, <<"NAA">>>>
FileA  == File(HeaderRow(8, CrNaa, <<"%SD">>), DataRow(8, "8.2", {}))
FileB  == File(HeaderRow(8, CrNaa, <<"%SD">>), DataRow(8, "7.9", {}))
FileCr == File(HeaderRow(5, CrNaa, <<"%SD">>), DataRow(5, "9.4", {}))
FileSd == File(HeaderRow(8, CrNaa, <<"SD">>), DataRow(8, "9.0", {}))
FileBad == File(HeaderRow(8, CrNaa, <<"%SD">>), DataRow(8, "8.2", {5}))
FileBadShort == File(HeaderRow(7, CrNaa, <<"%SD">>), DataRow(6, "8.2", {3}))

\* the files of the scenario: header ,,Cr,,,NAA,,, over ,,8.2,5,1.0,9.4,4,1.1
ScenarioHeader == << <<>>, <<>>, <<"Cr">>, <<>>, <<>>, <<"NAA">>, <<>>, <<>>, <<>> >>
ScenarioHigh == File(ScenarioHeader, <<"", "", "8.2", "5", "1.0", "9.4", "4", "1.1">>)
ScenarioLow  == File(ScenarioHeader, <<"", "", "7.9", "5", "1.0", "9.0", "4", "1.1">>)

\* records read_csv builds for one condition
RecordPool(iso) ==
    { ReadCsv(FileA,  <<"7">>, <<"M">>, <<"Tg">>,  iso).rec,
      ReadCsv(FileB,  <<"8">>, <<"F">>, <<"nTg">>, iso).rec,
      ReadCsv(FileCr, <<"8">>, <<"F">>, <<"nTg">>, iso).rec,
      ReadCsv(FileSd, <<"9">>, <<"M">>, <<"TgAD">>, iso).rec }

SeqsUpTo(S, n) == UNION {[1..k -> S] : k \in 0..n}

\* ------------------------------------------------------------ idle values
NoResult == [err |-> "pending", rec |-> NoRecord]

ReadIdle ==
    /\ r_file = NoFile /\ r_iso = FALSE /\ r_res = NoResult /\ rpc = "idle"

WriteIdle ==
    /\ w_high = <<>> /\ w_low = <<>> /\ wout = Quiet("pending") /\ wpc = "idle"

OutputEmpty ==
    /\ table = NoTable /\ charts = {} /\ printed = <<>>

MainIdle ==
    /\ root = {} /\ todo = {} /\ pc = "idle" /\ run = 0
    /\ rats_high = <<>> /\ rats_low = <<>>
    /\ err = "none" /\ visited = {} /\ calls = 0 /\ earlier = <<>>

\* ------------------------------------------------- read_csv on its own
InitRead ==
    /\ r_file \in ReadFiles /\ r_iso \in BOOLEAN /\ r_res = NoResult /\ rpc = "ready"
    /\ WriteIdle /\ OutputEmpty /\ MainIdle

DoRead ==
    /\ rpc = "ready"
    /\ r_res' = ReadCsv(r_file, <<"7">>, <<"M">>, <<"Tg">>, r_iso)
    /\ rpc' = "done"
    /\ UNCHANGED <<r_file, r_iso, wvars, ovars, mvars>>

NextRead == DoRead

SpecRead == InitRead /\ [][NextRead]_vars

\* ------------------------------------------------ write_csv on its own
InitWrite ==
    /\ \E iso \in BOOLEAN :
          /\ w_high \in SeqsUpTo(RecordPool(iso), MaxRats)
          /\ w_low \in SeqsUpTo(RecordPool(~iso), MaxRats)
    /\ wout = Quiet("pending") /\ wpc = "ready"
    /\ ReadIdle /\ OutputEmpty /\ MainIdle

\* the files and the output a call of write_csv leaves behind
WriteEffect(res) ==
    /\ table' = IF res.table.exists THEN res.table ELSE table
    /\ charts' = charts \cup res.charts
    /\ printed' = printed \o res.said

DoWrite ==
    /\ wpc = "ready"
    /\ wout' = WriteCsv(w_high, w_low)
    /\ wpc' = IF wout'.err = "none" THEN "returned" ELSE "raised"
    /\ WriteEffect(wout')
    /\ UNCHANGED <<w_high, w_low, rvars, mvars>>

NextWrite == DoWrite

SpecWrite == InitWrite /\ [][NextWrite]_vars

\* -------------------------------------------------------------------- main
Perms(S) == {f \in [1..Cardinality(S) -> S] : \A x \in S : \E i \in 1..Cardinality(S) : f[i] = x}

SubDir(name, file) == [name |-> name, isdir |-> TRUE, file |-> file]
SubFile(name)      == [name |-> name, isdir |-> FALSE, file |-> NoFile]
Folder(name, subs) == [name |-> name, isdir |-> TRUE, subs |-> subs]
RootFile(name)     == [name |-> name, isdir |-> FALSE, subs |-> {}]

FolderName(rat_id, genetics, gender) ==
    <<"Study", "_", rat_id, "_", "x", "_", "x", "_", "x", "_", "x", "_", genetics, "_", gender>>

IsoHigh  == <<"iso", "_", "high">>
IsoHigh2 == <<"iso", "_", "high", "_", "2">>
IsoLow   == <<"iso", "_", "low">>

SubsOk       == {SubDir(IsoHigh, FileA), SubDir(IsoLow, FileB)}
SubsNotes    == SubsOk \cup {SubFile(<<"notes.txt">>)}
SubsOnlyHigh == {SubDir(IsoHigh, FileA)}
SubsTwoHigh  == {SubDir(IsoHigh, FileA), SubDir(IsoHigh2, FileB)}
SubsBad      == {SubDir(IsoHigh, FileA), SubDir(IsoLow, FileBad)}
SubsBadShort == {SubDir(IsoHigh, FileBadShort), SubDir(IsoLow, FileB)}
SubsHighCr   == {SubDir(IsoHigh, FileCr), SubDir(IsoLow, FileA)}
SubsSd       == {SubDir(IsoHigh, FileA), SubDir(IsoLow, FileSd)}
SubsMissing  == {SubDir(IsoHigh, FileA), SubDir(IsoLow, NoFile)}
SubsScenario == {SubDir(IsoHigh, ScenarioHigh), SubDir(IsoLow, ScenarioLow)}

FolderPool ==
    {Folder(FolderName("7", "Tg", "M"), subs) :
        subs \in {SubsOk, SubsNotes, SubsOnlyHigh, SubsTwoHigh, SubsBad, SubsHighCr, SubsSd,
                  SubsMissing, SubsScenario}}
    \cup {Folder(FolderName("8", "nTg", "F"), subs) :
        subs \in {SubsOk, SubsNotes, SubsOnlyHigh, SubsBad, SubsBadShort, SubsSd}}
    \cup {Folder(FolderName("9", "WT", "M"), SubsOk), Folder(<<"Study", "_", "5">>, SubsOk)}

\* a directory holds no two entries of one name
Roots ==
    {r \in SUBSET FolderPool :
        /\ Cardinality(r) <= MaxSubjects
        /\ \A a, b \in r : a.name = b.name => a = b}

\* what os.listdir(output_csv) returns, as a set: the order is the order in
\* which VisitEntry takes the entries
Listing ==
    root \cup (IF table.exists THEN {RootFile(<<"MRS_Data.csv">>)} ELSE {})
         \cup {RootFile(c) : c \in charts}

InitMain ==
    /\ root \in Roots
    /\ todo = {} /\ pc = "start" /\ run = 1
    /\ rats_high = <<>> /\ rats_low = <<>>
    /\ err = "none" /\ visited = {} /\ calls = 0 /\ earlier = <<>>
    /\ ReadIdle /\ WriteIdle /\ OutputEmpty

\* rats_high = [], rats_low = [], os.listdir(output_csv)
ListDir ==
    /\ pc = "start"
    /\ todo' = Listing
    /\ pc' = "loop"
    /\ rats_high' = <<>> /\ rats_low' = <<>>
    /\ UNCHANGED <<root, run, err, visited, calls, earlier, rvars, wvars, ovars>>

\* an inner loop that files every record under rats_high
ReadSub_bothHigh(acc, sub, rat_id, gender, genetics) ==
    IF ~sub.isdir THEN acc
    ELSE LET high == Contains(sub.name, "high")
             res  == ReadCsv(sub.file, rat_id, gender, genetics, high)
         IN  IF res.err # "none"
             THEN [acc EXCEPT !.err = res.err, !.visited = @ \cup {sub.file}]
             ELSE [acc EXCEPT !.high = Append(@, res.rec), !.visited = @ \cup {sub.file}]

\* one pass of the inner loop: the folder entry sub of a subject
ReadSub(acc, sub, rat_id, gender, genetics) ==
    IF ~sub.isdir THEN acc
    ELSE LET high == Contains(sub.name, "high")
             res  == ReadCsv(sub.file, rat_id, gender, genetics, high)
         IN  IF res.err # "none"
             THEN [acc EXCEPT !.err = res.err, !.visited = @ \cup {sub.file}]
             ELSE IF high
             THEN [acc EXCEPT !.high = Append(@, res.rec), !.visited = @ \cup {sub.file}]
             ELSE [acc EXCEPT !.low = Append(@, res.rec), !.visited = @ \cup {sub.file}]

\* for iso in os.listdir(sub_folder), the listing being the sequence subs
RECURSIVE ReadSubs(_, _, _, _, _, _)
ReadSubs(acc, subs, n, rat_id, gender, genetics) ==
    IF n > Len(subs) \/ acc.err # "none" THEN acc
    ELSE ReadSubs(ReadSub(acc, subs[n], rat_id, gender, genetics), subs, n + 1,
                  rat_id, gender, genetics)

\* the body of the outer loop for a subject folder
ReadFolder(acc, e, subs) ==
    LET lst == Split(Strip(e.name), "_")
    IN  IF Len(lst) < 8 THEN [acc EXCEPT !.err = "IndexError"]
        ELSE ReadSubs(acc, subs, 1, At(lst, 1), At(lst, 7), At(lst, 6))

VisitEntry ==
    /\ pc = "loop"
    /\ \E e \in todo :
          /\ todo' = todo \ {e}
          /\ IF ~e.isdir
             THEN UNCHANGED <<rats_high, rats_low, err, visited, pc>>
             ELSE \E subs \in Perms(e.subs) :
                    LET acc == ReadFolder([high |-> rats_high, low |-> rats_low,
                                           err |-> "none", visited |-> visited], e, subs)
                    IN  /\ rats_high' = acc.high
                        /\ rats_low' = acc.low
                        /\ err' = acc.err
                        /\ visited' = acc.visited
                        /\ pc' = IF acc.err = "none" THEN "loop" ELSE "aborted"
    /\ UNCHANGED <<root, run, calls, earlier, rvars, wvars, ovars>>

\* write_csv(rats_low, rats_high, output_csv) and the closing print
CallWrite ==
    /\ pc = "loop" /\ todo = {}
    /\ w_high' = rats_low
    /\ w_low' = rats_high
    /\ wout' = WriteCsv(rats_low, rats_high)
    /\ wpc' = IF wout'.err = "none" THEN "returned" ELSE "raised"
    /\ calls' = calls + 1
    /\ table' = IF wout'.table.exists THEN wout'.table ELSE table
    /\ charts' = charts \cup wout'.charts
    /\ printed' = IF wout'.err = "none"
                  THEN printed \o wout'.said \o <<"Conversion Completed">>
                  ELSE printed \o wout'.said
    /\ err' = wout'.err
    /\ pc' = IF wout'.err = "none" THEN "done" ELSE "aborted"
    /\ UNCHANGED <<root, todo, run, rats_high, rats_low, visited, earlier, rvars>>

\* the program is started a second time over the same root
Rerun ==
    /\ pc \in {"done", "aborted"}
    /\ run = 1
    /\ earlier' = Append(earlier, [how |-> pc, table |-> table, charts |-> charts])
    /\ run' = run + 1
    /\ pc' = "start"
    /\ todo' = {} /\ rats_high' = <<>> /\ rats_low' = <<>>
    /\ err' = "none" /\ visited' = {} /\ calls' = 0
    /\ printed' = <<>>
    /\ UNCHANGED <<root, table, charts, rvars, wvars>>

Next == ListDir \/ VisitEntry \/ CallWrite \/ Rerun

Spec == InitMain /\ [][Next]_vars

\* =================================================== properties: read_csv
\* the data row has a cell under every header cell and every cell parses
WellFormed(file) ==
    /\ Len(file.data) = Len(file.header)
    /\ \A c \in 2..(Len(file.header) - 1) :
          IF (c - 2) % 3 = 1 THEN IsIntText(At(file.data, c)) ELSE IsFloatText(At(file.data, c))

\* C5: for a two-row file with a header row of any length n >= 2, read_csv
\* returns a record with exactly one metabolite entry per group of three
\* columns from column 2 on, keyed by the trimmed first header of the group and
\* holding the group's three data cells.
C5_OneEntryPerGroup ==
    (rpc = "done" /\ WellFormed(r_file) /\ Len(r_file.header) >= 2) =>
        /\ r_res.err = "none"
        /\ Len(r_res.rec.metabolites) = (Len(r_file.header) - 2) \div 3
        /\ \A g \in 1..Len(r_res.rec.metabolites) :
              /\ r_res.rec.metabolites[g].k = Strip(At(r_file.header, 3 * g - 1))
              /\ r_res.rec.metabolites[g].v[1].x = PyFloat(At(r_file.data, 3 * g - 1))
              /\ r_res.rec.metabolites[g].v[2].x = PyInt(At(r_file.data, 3 * g))
              /\ r_res.rec.metabolites[g].v[3].x = PyFloat(At(r_file.data, 3 * g + 1))

\* ================================================== properties: write_csv
\* C3: called with an empty first or second list, write_csv writes no table,
\* renders no chart, raises nothing and only prints the "no data" line.
C3_EmptyListNoOutput ==
    (wpc \in {"returned", "raised"} /\ (w_high = <<>> \/ w_low = <<>>)) =>
        /\ wpc = "returned"
        /\ ~table.exists
        /\ charts = {}
        /\ printed = <<"No rat data available">>

C3_Witness ==
    wpc = "returned" /\ w_high = <<>> /\ Len(w_low) >= 1 /\ printed # <<>>

\* C4: called with two non-empty lists of different lengths, write_csv reports
\* the mismatch (an exception or a diagnostic) and writes no table.
C4_MismatchRejected ==
    (wpc \in {"returned", "raised"} /\ Len(w_high) >= 1 /\ Len(w_low) >= 1
        /\ Len(w_high) # Len(w_low)) =>
        /\ ~table.exists
        /\ (wpc = "raised" \/ printed # <<>>)

SameMetabolites(rat_high, rat_low) ==
    \A k \in 1..Len(rat_high), j \in 1..Len(rat_low) :
        /\ DictKeys(rat_high[k].metabolites) = DictKeys(rat_high[1].metabolites)
        /\ DictKeys(rat_low[j].metabolites) = DictKeys(rat_high[1].metabolites)

\* C1: for two equal-length non-empty lists over one metabolite set, write_csv
\* builds one row per subject that holds the 3 identity fields and, for every
\* metabolite, all 6 values (3 sub-fields of each condition), each equal to the
\* input record's value: 3 + 6 * (metabolite count) populated values.
C1_RowHoldsBothConditions ==
    (wpc \in {"returned", "raised"} /\ Len(w_high) >= 1 /\ Len(w_high) = Len(w_low)
        /\ SameMetabolites(w_high, w_low)) =>
        /\ Len(wout.rats_data) = Len(w_high)
        /\ \A k \in 1..Len(wout.rats_data) :
              /\ Len(wout.rats_data[k]) = 3 + 6 * Len(w_high[1].metabolites)
              /\ \A i \in 1..Len(w_high[k].metabolites), m \in 1..3 :
                    /\ DictHas(wout.rats_data[k], w_high[k].metabolites[i].v[m].n)
                    /\ DictGet(wout.rats_data[k], w_high[k].metabolites[i].v[m].n)
                           = w_high[k].metabolites[i].v[m].x
                    /\ DictHas(wout.rats_data[k], w_low[k].metabolites[i].v[m].n)
                    /\ DictGet(wout.rats_data[k], w_low[k].metabolites[i].v[m].n)
                           = w_low[k].metabolites[i].v[m].x

\* the header: Id, Genotype, Gender, then per metabolite of the first list's
\* first record, per sub-field, the first list's column and the second list's
HeaderShape ==
    /\ Len(table.header) = 3 + 6 * Len(w_high[1].metabolites)
    /\ SubSeq(table.header, 1, 3) = << <<"Id">>, <<"Genotype">>, <<"Gender">> >>
    /\ \A i \in 1..Len(w_high[1].metabolites), m \in 1..3 :
          /\ table.header[3 + 6 * (i - 1) + 2 * (m - 1) + 1] = w_high[1].metabolites[i].v[m].n
          /\ table.header[3 + 6 * (i - 1) + 2 * (m - 1) + 2]
                 = DictGet(w_low[1].metabolites, w_high[1].metabolites[i].k)[m].n

OneRowPerSubject ==
    /\ Len(table.rows) = Len(w_high)
    /\ \A k \in 1..Len(table.rows) :
          /\ Len(table.rows[k]) = Len(table.header)
          /\ table.rows[k][1] = w_high[k].id

\* C6 as stated: for non-empty equal-length lists the serialized table has the
\* header above followed by exactly one data row per subject, in list order.
C6_TableShape ==
    (wpc \in {"returned", "raised"} /\ Len(w_high) >= 1 /\ Len(w_high) = Len(w_low)
        /\ table.exists) =>
        HeaderShape /\ OneRowPerSubject

\* every first-list record names its sub-fields as columns of the header
NamesInHeader ==
    \A k \in 1..Len(w_high) : \A i \in 1..Len(w_high[k].metabolites), m \in 1..3 :
        DictHas(w_high[1].metabolites, w_high[k].metabolites[i].k) =>
            w_high[k].metabolites[i].v[m].n \in Range(table.header)

\* C6 amended: the same, for lists whose first-list records name their
\* sub-fields as the header does; otherwise the writer raises after the rows
\* that precede the first record that does not.
C6_TableShapeAmended ==
    (wpc \in {"returned", "raised"} /\ Len(w_high) >= 1 /\ Len(w_high) = Len(w_low)
        /\ table.exists) =>
        /\ HeaderShape
        /\ NamesInHeader => (wpc = "returned" /\ OneRowPerSubject)

C6_Witness ==
    /\ wpc = "returned" /\ table.exists
    /\ Len(w_high) >= 2 /\ Len(w_low) = Len(w_high)
    /\ Len(w_high[1].metabolites) = 2
    /\ w_high[1].id # w_high[2].id

\* ======================================================= properties: main
ColumnOf(name) == CHOOSE i \in 1..Len(table.header) : table.header[i] = name

Cell(r, name) == table.rows[r][ColumnOf(name)]

ScenarioRoot == {Folder(FolderName("7", "Tg", "M"), SubsScenario)}

\* C2: over the single folder Study_7_x_x_x_x_Tg_M with the two scenario
\* spreadsheets the run completes and the table has one row, for subject 7,
\* with Id=7, Genotype=Tg, Gender=M, Cr iso_high=8.2 and Cr iso_low=7.9.
C2_ScenarioRow ==
    (root = ScenarioRoot /\ run = 1 /\ pc \in {"done", "aborted"}) =>
        /\ pc = "done"
        /\ table.exists
        /\ Len(table.rows) = 1
        /\ \A n \in {<<"Id">>, <<"Genotype">>, <<"Gender">>,
                     <<"Cr", " ", "iso_high">>, <<"Cr", " ", "iso_low">>} :
              n \in Range(table.header)
        /\ Cell(1, <<"Id">>) = <<"7">>
        /\ Cell(1, <<"Genotype">>) = <<"Tg">>
        /\ Cell(1, <<"Gender">>) = <<"M">>
        /\ Cell(1, <<"Cr", " ", "iso_high">>) = <<"8", ".", "2">>
        /\ Cell(1, <<"Cr", " ", "iso_low">>) = <<"7", ".", "9">>

\* C7: two successive runs over unchanged subject folders leave the same table
\* content, whatever order the directory listing returns the entries in.
C7_SecondRunSameTable ==
    (run = 2 /\ pc = "done" /\ earlier[1].how = "done") => table = earlier[1].table

Min(a, b) == IF a < b THEN a ELSE b

\* a cell that read_csv converts and that does not parse
Malformed(file) ==
    /\ ~file.missing
    /\ \E c \in 2..(Min(Len(file.header), Len(file.data)) - 1) :
          IF (c - 2) % 3 = 1 THEN ~IsIntText(At(file.data, c)) ELSE ~IsFloatText(At(file.data, c))

LeftByEarlierRuns ==
    /\ table = IF earlier = <<>> THEN NoTable ELSE earlier[Len(earlier)].table
    /\ charts = IF earlier = <<>> THEN {} ELSE earlier[Len(earlier)].charts

\* C8: once a spreadsheet with a malformed numeric field has been read, the
\* run is aborted by a parse error, write_csv is not called and the run writes
\* no table and no chart.
C8_MalformedAborts ==
    (pc # "start" /\ \E f \in visited : Malformed(f)) =>
        /\ pc = "aborted"
        /\ err = "ValueError"
        /\ calls = 0
        /\ LeftByEarlierRuns

C8_Witness ==
    /\ pc = "aborted" /\ \E f \in visited : Malformed(f)
    /\ Len(rats_high) + Len(rats_low) >= 1

SubDirs(e) == {d \in e.subs : d.isdir}

Paired(e) ==
    /\ Cardinality({d \in SubDirs(e) : Contains(d.name, "high")}) = 1
    /\ Cardinality({d \in SubDirs(e) : ~Contains(d.name, "high")}) = 1

\* C9: when every subject folder has exactly one condition folder whose name
\* contains "high" and exactly one whose name does not, then between subject
\* folders the two lists have the same length and hold, index by index,
\* records of the same subject, whatever the listing orders.
C9_ListsAligned ==
    (pc \in {"loop", "done"} /\ \A e \in root : Paired(e)) =>
        /\ Len(rats_high) = Len(rats_low)
        /\ \A i \in 1..Len(rats_high) : rats_high[i].id = rats_low[i].id

C9_Witness ==
    /\ pc = "loop" /\ \A e \in root : Paired(e)
    /\ Len(rats_high) >= 2 /\ Len(rats_low) >= 2
    /\ rats_high[1].id # rats_high[2].id

Genotypes == {<<"Tg">>, <<"nTg">>, <<"TgAD">>}

\* C10: every record main hands to write_csv has a genotype of {Tg, nTg, TgAD}.
C10_GenotypeInSet ==
    calls >= 1 =>
        \A i \in 1..(Len(w_high) + Len(w_low)) : (w_high \o w_low)[i].genetics \in Genotypes

====
